---- MODULE Spec2Model ----
(***************************************************************************)
(* A model of news_aggregator.py: one run of main(), i.e. fetch_articles,  *)
(* generate_digest, build_email, get_subscribers and send_email, with the  *)
(* feeds, the summarizer API, the subscriber sheet and the SMTP server as  *)
(* the environment.                                                        *)
(*                                                                         *)
(* Time is counted in ticks (TicksPerMinute ticks to the minute).  Feed    *)
(* dates (feedparser's *_parsed fields) are UTC; datetime.now() is the     *)
(* naive local time, i.e. UTC shifted by the offset of the host's zone.    *)
(***************************************************************************)
EXTENDS Integers, Sequences, FiniteSets, TLC

VARIABLES
    pc,               \* position of the run inside main()
    utc,              \* the true time (UTC), in ticks
    tzOffset,         \* hours the host's local zone is ahead of UTC
    feeds,            \* environment: the feed each source serves in this run
    raising,          \* environment: the sources whose fetch/parse raises
    cutoff,           \* fetch_articles: cutoff (naive local time, ticks)
    i,                \* fetch_articles: index of the next source of the tier
    free_articles,    \* fetch_articles / main: the free list
    paywall_articles, \* fetch_articles / main: the paywalled list
    fetchLog,         \* logger lines 188/190/219/221: source -> "ok" / "error"
    fetchCount,       \* the count logged at lines 188/219, per source
    fetches,          \* number of feedparser.parse calls, per source
    digestArgs,       \* main: the arguments of the call of generate_digest
    attempt,          \* generate_digest: the loop variable
    apiLog,           \* the outcome of every client.messages.create call
    sleeps,           \* generate_digest: the seconds of every time.sleep call
    digest,           \* main: the digest returned by generate_digest
    html_email,       \* main: the result of build_email
    dirReads,         \* number of reads of the subscriber sheet
    subscribers,      \* main: the result of get_subscribers
    k,                \* send_email: index of the next recipient
    sendLog,          \* logger lines 467/471: one record per send attempt
    delivered,        \* messages the SMTP server accepted, in order
    connections,      \* SMTP connections opened so far
    openConns,        \* SMTP connections open at this moment
    raisedAt,         \* where the exception that ended the run was raised
    dirOutcome,       \* environment: how the read of the subscriber sheet went
    sheet,            \* environment: the worksheet that was read
    recipientEnv      \* environment: RECIPIENT_EMAIL as get_subscribers saw it

vars == <<pc, digestArgs, utc, tzOffset, feeds, raising, cutoff, i, free_articles,
          paywall_articles, fetchLog, fetchCount, fetches, attempt, apiLog, sleeps,
          digest, html_email, dirReads, subscribers, k, sendLog, delivered,
          connections, openConns, raisedAt, dirOutcome, sheet, recipientEnv>>

-----------------------------------------------------------------------------
(* Bounds of the model *)

NumFree == 2
NumPaywall == 1
TicksPerMinute == 2
FetchTicks == 1

(* Program constants *)

TIME_WINDOW_HOURS == 72
MAX_ARTICLES_PER_SOURCE == 20
SUMMARY_MAX == 500
max_retries == 3

TicksPerHour == 60 * TicksPerMinute
WindowTicks == TIME_WINDOW_HOURS * TicksPerHour

\* The moment the run starts (UTC); not on a minute boundary.
StartUtc == 1000 * TicksPerHour + 1

Min(a, b) == IF a <= b THEN a ELSE b

-----------------------------------------------------------------------------
(* The source registry.  A source's name is its number; the free sources   *)
(* come first.                                                             *)

SOURCES == [n \in 1..NumFree |-> [name |-> n, url |-> n]]

PAYWALL_SOURCES ==
    [n \in 1..NumPaywall |-> [name |-> NumFree + n, url |-> NumFree + n]]

FreeNames == {SOURCES[n].name : n \in 1..Len(SOURCES)}
PaywallNames == {PAYWALL_SOURCES[n].name : n \in 1..Len(PAYWALL_SOURCES)}
AllNames == FreeNames \cup PaywallNames

-----------------------------------------------------------------------------
(* Feed entries.  An entry is a record; a key the feed does not carry is   *)
(* not in its domain.  A *_parsed date is <<t>> (t in UTC ticks), and <<>> *)
(* when feedparser left it empty; a negative t stands for a struct_time    *)
(* that datetime() rejects.  Titles, links and summaries are strings,      *)
(* modelled as sequences of characters.                                    *)

Get(entry, key, default) == IF key \in DOMAIN entry THEN entry[key] ELSE default

\* hasattr(entry, key) and entry.<key>
HasDate(entry, key) == key \in DOMAIN entry /\ entry[key] # <<>>

\* datetime.now(): naive local time
LocalNow(t, tz) == t + tz * TicksPerHour

\* datetime(*struct[:6]); raises ValueError on an out-of-range field
DatetimeRaises(struct) == struct[1] < 0
Datetime(struct) == struct[1]

\* strftime("%Y-%m-%d %H:%M"): the date to the minute
Strftime(t) == t \div TicksPerMinute

\* s[:n]
Slice(s, n) == SubSeq(s, 1, Min(Len(s), n))

-----------------------------------------------------------------------------
(* fetch_articles: one entry (the body of the inner try, lines 167-187 and *)
(* 198-218).                                                               *)

\* the date conversion at lines 169-172 raises: the inner except skips the entry
EntryRaises(entry) ==
    IF HasDate(entry, "published_parsed")
    THEN DatetimeRaises(entry.published_parsed)
    ELSE IF HasDate(entry, "updated_parsed")
         THEN DatetimeRaises(entry.updated_parsed)
         ELSE FALSE

\* pub_date, lines 169-174: published, else updated, else datetime.now()
PubDate(entry, now) ==
    IF HasDate(entry, "published_parsed")
    THEN Datetime(entry.published_parsed)
    ELSE IF HasDate(entry, "updated_parsed")
         THEN Datetime(entry.updated_parsed)
         ELSE now

\* the default of entry.get("title", "Untitled")
Untitled == <<"U", "n", "t", "i", "t", "l", "e", "d">>

\* the dict appended at lines 177-183 (free) and 207-214 (paywalled)
Article(source, entry, pub_date, paywall) ==
    LET fields ==
            [source  |-> source.name,
             title   |-> Get(entry, "title", Untitled),
             link    |-> Get(entry, "link", <<>>),
             summary |-> Slice(Get(entry, "summary",
                                   Get(entry, "description", <<>>)),
                               SUMMARY_MAX),
             date    |-> Strftime(pub_date)]
    IN  IF paywall
        THEN [f \in DOMAIN fields \cup {"paywall"} |->
                 IF f = "paywall" THEN TRUE ELSE fields[f]]
        ELSE fields

\* what one entry appends to the list: nothing, or one article
EntryArticles(source, entry, cut, now, paywall) ==
    IF EntryRaises(entry)
    THEN <<>>
    ELSE IF PubDate(entry, now) >= cut
         THEN <<Article(source, entry, PubDate(entry, now), paywall)>>
         ELSE <<>>

\* the loop over feed.entries[:MAX_ARTICLES_PER_SOURCE], lines 166-187
RECURSIVE ParseEntries(_, _, _, _, _)
ParseEntries(source, entries, cut, now, paywall) ==
    IF entries = <<>>
    THEN <<>>
    ELSE EntryArticles(source, Head(entries), cut, now, paywall)
         \o ParseEntries(source, Tail(entries), cut, now, paywall)

\* SourceArticles with the cut made after the filter: the first
\* MAX_ARTICLES_PER_SOURCE qualifying entries
SourceArticlesFilterFirst(source, feed, cut, now, paywall) ==
    Slice(ParseEntries(source, feed, cut, now, paywall), MAX_ARTICLES_PER_SOURCE)

\* everything one source contributes when its fetch does not raise
SourceArticles(source, feed, cut, now, paywall) ==
    ParseEntries(source, Slice(feed, MAX_ARTICLES_PER_SOURCE), cut, now, paywall)

-----------------------------------------------------------------------------
(* The feeds of the environment *)

EntryA ==
    [title |-> <<"A">>, link |-> <<"/", "a">>, summary |-> <<"a">>,
     published_parsed |-> <<StartUtc - 2 * TicksPerHour>>]

\* no published date; an updated date with seconds; a description, no summary
EntryB ==
    [title |-> <<"B">>, link |-> <<"/", "b">>, description |-> <<"b", "b">>,
     published_parsed |-> <<>>,
     updated_parsed |-> <<StartUtc - TicksPerHour>>]

\* older than the window in every zone
EntryOld ==
    [title |-> <<"O", "l", "d">>, link |-> <<"/", "o", "l", "d">>, summary |-> <<>>,
     published_parsed |-> <<StartUtc - WindowTicks - 10 * TicksPerHour>>]

\* one hour older than the window
EntryEdge ==
    [title |-> <<"E", "d", "g", "e">>, link |-> <<"/", "e", "d", "g", "e">>, summary |-> <<"e">>,
     published_parsed |-> <<StartUtc - WindowTicks - TicksPerHour>>]

\* dated a day after the run
EntryFuture ==
    [title |-> <<"F", "u", "t">>, link |-> <<"/", "f", "u", "t">>,
     summary |-> <<"f">>,
     published_parsed |-> <<StartUtc + 24 * TicksPerHour>>]

\* a date datetime() rejects
EntryBad ==
    [title |-> <<"B", "a", "d">>, link |-> <<"/", "b", "a", "d">>,
     published_parsed |-> <<0 - 1>>]

\* no title, no date at all
EntryUndated == [link |-> <<"/", "u">>, summary |-> <<"u">>]

\* a recent entry about sports
EntrySports ==
    [title |-> <<"S", "p", "o", "r", "t", "s", " ", "D", "a", "y">>,
     link |-> <<"/", "s">>, summary |-> <<"g", "a", "m", "e">>,
     published_parsed |-> <<StartUtc - 3 * TicksPerHour>>]

\* a recent entry with markup in its title and its summary
EntryMarkup ==
    [title |-> <<"<", "b", ">">>, link |-> <<"/", "m">>,
     summary |-> <<"x", "&", "y">>,
     published_parsed |-> <<StartUtc - 4 * TicksPerHour>>]

\* the n-th entry of a long feed, recent
Letters ==
    <<"a", "b", "c", "d", "e", "f", "g", "h", "i", "j", "k", "l", "m", "n",
      "o", "p", "q", "r", "s", "t", "u", "v", "w", "x", "y", "z">>
EntryN(n) ==
    [title |-> <<"N", Letters[n]>>, link |-> <<"/", "n", Letters[n]>>,
     summary |-> <<>>,
     published_parsed |-> <<StartUtc - 5 * TicksPerHour>>]

FeedEmpty == <<>>
FeedAB == <<EntryA, EntryB>>
FeedOld == <<EntryOld, EntryFuture, EntryBad>>
FeedUndated == <<EntryUndated, EntryEdge>>

\* one entry more than MAX_ARTICLES_PER_SOURCE: an old entry, then recent ones
FeedLong ==
    [n \in 1..MAX_ARTICLES_PER_SOURCE + 1 |->
        CASE n = 1 -> EntryOld
          [] n = 2 -> EntrySports
          [] n = 3 -> EntryMarkup
          [] OTHER -> EntryN(n)]

FetchFeeds == {FeedEmpty, FeedAB, FeedOld, FeedUndated, FeedLong}
RunFeeds == {FeedEmpty, FeedAB}
TzOffsets == {0 - 5, 0}

-----------------------------------------------------------------------------
(* The initial state: main() has been entered and fetch_articles has set   *)
(* its cutoff and its two empty lists (lines 157-159).  The environment of *)
(* the run (feeds, failing sources, time zone) is fixed here.  A source    *)
(* whose fetch raises serves nothing.                                      *)

InitWith(feedSet, zones) ==
    /\ pc = "fetch_free"
    /\ utc = StartUtc
    /\ tzOffset \in zones
    /\ raising \in SUBSET AllNames
    /\ feeds \in [AllNames -> feedSet \cup {FeedEmpty}]
    /\ \A s \in raising : feeds[s] = FeedEmpty
    /\ cutoff = LocalNow(StartUtc, tzOffset) - WindowTicks
    /\ i = 1
    /\ free_articles = <<>>
    /\ paywall_articles = <<>>
    /\ fetchLog = [s \in AllNames |-> "none"]
    /\ fetchCount = [s \in AllNames |-> 0]
    /\ fetches = [s \in AllNames |-> 0]
    /\ digestArgs = <<>>
    /\ attempt = 0
    /\ apiLog = <<>>
    /\ sleeps = <<>>
    /\ digest = <<>>
    /\ html_email = <<>>
    /\ dirReads = 0
    /\ subscribers = <<>>
    /\ k = 1
    /\ sendLog = <<>>
    /\ delivered = <<>>
    /\ connections = 0
    /\ openConns = 0
    /\ raisedAt = "nowhere"
    /\ dirOutcome = "none"
    /\ sheet = <<>>
    /\ recipientEnv = <<>>

Init == InitWith(RunFeeds, {0})
InitFetch == InitWith(FetchFeeds, TzOffsets)

\* the run ends with an exception raised at `where`
Raise(where) ==
    /\ pc' = "raised"
    /\ raisedAt' = where

restOfRun == <<digestArgs, attempt, apiLog, sleeps, digest, html_email, dirReads, subscribers,
               k, sendLog, delivered, connections, openConns, dirOutcome, sheet,
               recipientEnv>>
environment == <<tzOffset, feeds, raising>>

-----------------------------------------------------------------------------
(* fetch_articles: one iteration of a tier's loop over its sources, lines  *)
(* 163-190 (free) and 194-221 (paywalled).  feedparser.parse is called; if *)
(* it raises, the outer except logs the source as failed and the loop goes *)
(* on; otherwise the entries are parsed and the source is logged with its  *)
(* count.  After the last paywalled source the function returns (226).     *)

\* FetchTier without the outer try/except: the exception of a failing
\* source leaves fetch_articles
FetchTierUncaught(tier, paywall, list, nextPc) ==
    LET source == tier[i]
        name == source.name
        now == utc + FetchTicks
        got == SourceArticles(source, feeds[name], cutoff,
                              LocalNow(now, tzOffset), paywall)
    IN  /\ utc' = now
        /\ fetches' = [fetches EXCEPT ![name] = @ + 1]
        /\ IF name \in raising
           THEN /\ Raise("fetch_articles")
                /\ UNCHANGED <<i, fetchLog, fetchCount, free_articles,
                               paywall_articles>>
           ELSE /\ fetchLog' = [fetchLog EXCEPT ![name] = "ok"]
                /\ fetchCount' = [fetchCount EXCEPT ![name] = Len(got)]
                /\ IF paywall
                   THEN /\ paywall_articles' = list \o got
                        /\ UNCHANGED free_articles
                   ELSE /\ free_articles' = list \o got
                        /\ UNCHANGED paywall_articles
                /\ UNCHANGED raisedAt
                /\ IF i < Len(tier)
                   THEN i' = i + 1 /\ pc' = pc
                   ELSE i' = 1 /\ pc' = nextPc
        /\ UNCHANGED <<cutoff, restOfRun, environment>>

FetchTier(tier, paywall, list, nextPc) ==
    LET source == tier[i]
        name == source.name
        now == utc + FetchTicks
        got == SourceArticles(source, feeds[name], cutoff,
                              LocalNow(now, tzOffset), paywall)
    IN  /\ utc' = now
        /\ fetches' = [fetches EXCEPT ![name] = @ + 1]
        /\ IF name \in raising
           THEN /\ fetchLog' = [fetchLog EXCEPT ![name] = "error"]
                /\ UNCHANGED <<fetchCount, free_articles, paywall_articles>>
           ELSE /\ fetchLog' = [fetchLog EXCEPT ![name] = "ok"]
                /\ fetchCount' = [fetchCount EXCEPT ![name] = Len(got)]
                /\ IF paywall
                   THEN /\ paywall_articles' = list \o got
                        /\ UNCHANGED free_articles
                   ELSE /\ free_articles' = list \o got
                        /\ UNCHANGED paywall_articles
        /\ IF i < Len(tier)
           THEN i' = i + 1 /\ pc' = pc
           ELSE i' = 1 /\ pc' = nextPc
        /\ UNCHANGED <<cutoff, raisedAt, restOfRun, environment>>

FetchFree ==
    /\ pc = "fetch_free"
    /\ FetchTier(SOURCES, FALSE, free_articles, "fetch_paywall")

FetchPaywall ==
    /\ pc = "fetch_paywall"
    /\ FetchTier(PAYWALL_SOURCES, TRUE, paywall_articles, "main_check")

NextFetch == FetchFree \/ FetchPaywall

SpecFetch == InitFetch /\ [][NextFetch]_vars

-----------------------------------------------------------------------------
(* main, lines 480-486: with both lists empty main logs and returns;       *)
(* otherwise it calls generate_digest.                                     *)

\* MainCheck without the test of the lists: generate_digest is called
\* whatever was collected
MainCheckAlways ==
    /\ pc = "main_check"
    /\ pc' = "generate_digest"
    /\ digestArgs' = <<free_articles, paywall_articles>>
    /\ UNCHANGED <<utc, cutoff, i, free_articles, paywall_articles, fetchLog,
                   fetchCount, fetches, raisedAt, attempt, apiLog, sleeps,
                   digest, html_email, dirReads, subscribers, k, sendLog,
                   delivered, connections, openConns, dirOutcome, sheet,
                   recipientEnv, environment>>

MainCheck ==
    /\ pc = "main_check"
    /\ IF free_articles = <<>> /\ paywall_articles = <<>>
       THEN /\ pc' = "no_articles"
            /\ UNCHANGED digestArgs
       ELSE /\ pc' = "generate_digest"
            /\ digestArgs' = <<free_articles, paywall_articles>>
    /\ UNCHANGED <<utc, cutoff, i, free_articles, paywall_articles, fetchLog,
                   fetchCount, fetches, raisedAt, attempt, apiLog, sleeps,
                   digest, html_email, dirReads, subscribers, k, sendLog,
                   delivered, connections, openConns, dirOutcome, sheet,
                   recipientEnv, environment>>

\* time.sleep(seconds): the ticks that have passed for certain
SleepTicks(seconds) == (seconds * TicksPerMinute) \div 60

-----------------------------------------------------------------------------
(* generate_digest, lines 228-294 *)

\* what the summarizer may answer: the text as a sequence of blocks
Responses == {<<>>, <<"text">>, <<"story">>, <<"story", "text", "story">>}

\* lines 230-276: the client is built from os.environ["ANTHROPIC_API_KEY"]
\* (KeyError when it is not set) and the prompt from both lists
DigestEnter ==
    /\ pc = "generate_digest"
    /\ \E hasKey \in BOOLEAN :
          IF hasKey
          THEN /\ pc' = "api_call"
               /\ attempt' = 0
               /\ UNCHANGED raisedAt
          ELSE /\ Raise("generate_digest")
               /\ UNCHANGED attempt
    /\ UNCHANGED <<utc, cutoff, i, free_articles, paywall_articles, fetchLog,
                   fetchCount, fetches, digestArgs, apiLog, sleeps, digest, html_email, dirReads,
                   subscribers, k, sendLog, delivered, connections, openConns,
                   dirOutcome, sheet, recipientEnv, environment>>

\* "api_error": messages.create raises anthropic.APIError; "other_error":
\* it, or message.content[0].text, raises anything else
ApiOutcomes == {"ok", "api_error", "other_error"}

\* ApiCall whose last failed attempt does not re-raise: the loop ends and
\* generate_digest returns None
ApiCallNoReraise ==
    /\ pc = "api_call"
    /\ \E outcome \in ApiOutcomes :
          /\ apiLog' = Append(apiLog, outcome)
          /\ CASE outcome = "ok" ->
                     \E text \in Responses :
                        /\ digest' = text
                        /\ pc' = "build_email"
                        /\ UNCHANGED <<attempt, utc, sleeps, raisedAt>>
               [] outcome = "api_error" ->
                     IF attempt < max_retries - 1
                     THEN /\ sleeps' = Append(sleeps, 5 * (attempt + 1))
                          /\ utc' = utc + SleepTicks(5 * (attempt + 1))
                          /\ attempt' = attempt + 1
                          /\ UNCHANGED <<pc, digest, raisedAt>>
                     ELSE /\ digest' = <<>>
                          /\ pc' = "build_email"
                          /\ UNCHANGED <<attempt, utc, sleeps, raisedAt>>
               [] outcome = "other_error" ->
                     /\ Raise("generate_digest")
                     /\ UNCHANGED <<attempt, utc, sleeps, digest>>
    /\ UNCHANGED <<cutoff, i, free_articles, paywall_articles, fetchLog,
                   fetchCount, fetches, digestArgs, html_email, dirReads, subscribers, k,
                   sendLog, delivered, connections, openConns, dirOutcome,
                   sheet, recipientEnv, environment>>

\* ApiCall that retries after the last attempt of the loop as well
ApiCallOneMore ==
    /\ pc = "api_call"
    /\ \E outcome \in ApiOutcomes :
          /\ apiLog' = Append(apiLog, outcome)
          /\ CASE outcome = "ok" ->
                     \E text \in Responses :
                        /\ digest' = text
                        /\ pc' = "build_email"
                        /\ UNCHANGED <<attempt, utc, sleeps, raisedAt>>
               [] outcome = "api_error" ->
                     IF attempt < max_retries
                     THEN /\ sleeps' = Append(sleeps, 5 * (attempt + 1))
                          /\ utc' = utc + SleepTicks(5 * (attempt + 1))
                          /\ attempt' = attempt + 1
                          /\ UNCHANGED <<pc, digest, raisedAt>>
                     ELSE /\ Raise("generate_digest")
                          /\ UNCHANGED <<attempt, utc, sleeps, digest>>
               [] outcome = "other_error" ->
                     /\ Raise("generate_digest")
                     /\ UNCHANGED <<attempt, utc, sleeps, digest>>
    /\ UNCHANGED <<cutoff, i, free_articles, paywall_articles, fetchLog,
                   fetchCount, fetches, digestArgs, html_email, dirReads, subscribers, k,
                   sendLog, delivered, connections, openConns, dirOutcome,
                   sheet, recipientEnv, environment>>

\* ApiCall whose except clause catches every exception, not only
\* anthropic.APIError
ApiCallRetryAny ==
    /\ pc = "api_call"
    /\ \E outcome \in ApiOutcomes :
          /\ apiLog' = Append(apiLog, outcome)
          /\ CASE outcome = "ok" ->
                     \E text \in Responses :
                        /\ digest' = text
                        /\ pc' = "build_email"
                        /\ UNCHANGED <<attempt, utc, sleeps, raisedAt>>
               [] outcome = "api_error" ->
                     IF attempt < max_retries - 1
                     THEN /\ sleeps' = Append(sleeps, 5 * (attempt + 1))
                          /\ utc' = utc + SleepTicks(5 * (attempt + 1))
                          /\ attempt' = attempt + 1
                          /\ UNCHANGED <<pc, digest, raisedAt>>
                     ELSE /\ Raise("generate_digest")
                          /\ UNCHANGED <<attempt, utc, sleeps, digest>>
               [] outcome = "other_error" ->
                     IF attempt < max_retries - 1
                     THEN /\ sleeps' = Append(sleeps, 5 * (attempt + 1))
                          /\ utc' = utc + SleepTicks(5 * (attempt + 1))
                          /\ attempt' = attempt + 1
                          /\ UNCHANGED <<pc, digest, raisedAt>>
                     ELSE /\ Raise("generate_digest")
                          /\ UNCHANGED <<attempt, utc, sleeps, digest>>
    /\ UNCHANGED <<cutoff, i, free_articles, paywall_articles, fetchLog,
                   fetchCount, fetches, digestArgs, html_email, dirReads, subscribers, k,
                   sendLog, delivered, connections, openConns, dirOutcome,
                   sheet, recipientEnv, environment>>

\* one iteration of the retry loop, lines 279-294
ApiCall ==
    /\ pc = "api_call"
    /\ \E outcome \in ApiOutcomes :
          /\ apiLog' = Append(apiLog, outcome)
          /\ CASE outcome = "ok" ->
                     \E text \in Responses :
                        /\ digest' = text
                        /\ pc' = "build_email"
                        /\ UNCHANGED <<attempt, utc, sleeps, raisedAt>>
               [] outcome = "api_error" ->
                     IF attempt < max_retries - 1
                     THEN /\ sleeps' = Append(sleeps, 5 * (attempt + 1))
                          /\ utc' = utc + SleepTicks(5 * (attempt + 1))
                          /\ attempt' = attempt + 1
                          /\ UNCHANGED <<pc, digest, raisedAt>>
                     ELSE /\ Raise("generate_digest")
                          /\ UNCHANGED <<attempt, utc, sleeps, digest>>
               [] outcome = "other_error" ->
                     /\ Raise("generate_digest")
                     /\ UNCHANGED <<attempt, utc, sleeps, digest>>
    /\ UNCHANGED <<cutoff, i, free_articles, paywall_articles, fetchLog,
                   fetchCount, fetches, digestArgs, html_email, dirReads, subscribers, k,
                   sendLog, delivered, connections, openConns, dirOutcome,
                   sheet, recipientEnv, environment>>

-----------------------------------------------------------------------------
(* build_email, lines 296-408: the digest inside the fixed template *)

BuildEmail ==
    /\ pc = "build_email"
    /\ html_email' = <<"header">> \o digest \o <<"footer">>
    /\ pc' = "get_subscribers"
    /\ UNCHANGED <<utc, cutoff, i, free_articles, paywall_articles, fetchLog,
                   fetchCount, fetches, digestArgs, attempt, apiLog, sleeps, digest, dirReads,
                   subscribers, k, sendLog, delivered, connections, openConns, raisedAt,
                   dirOutcome, sheet, recipientEnv, environment>>

-----------------------------------------------------------------------------
(* get_subscribers, lines 409-443.  Cell values and addresses are strings, *)
(* modelled as sequences of characters.                                    *)

\* "@" in email
Contains(str, c) == \E n \in 1..Len(str) : str[n] = c

\* str.strip()
RECURSIVE LStrip(_)
LStrip(str) ==
    IF str # <<>> /\ Head(str) = " " THEN LStrip(Tail(str)) ELSE str

RECURSIVE RStrip(_)
RStrip(str) ==
    IF str # <<>> /\ str[Len(str)] = " "
    THEN RStrip(SubSeq(str, 1, Len(str) - 1))
    ELSE str

Strip(str) == LStrip(RStrip(str))

\* worksheet.col_values(c): the c-th cell of every row, "" where a row is short
ColValues(worksheet, c) ==
    [n \in 1..Len(worksheet) |->
        IF c <= Len(worksheet[n]) THEN worksheet[n][c] ELSE <<>>]

\* list[1:]
DropFirst(list) == IF list = <<>> THEN <<>> ELSE Tail(list)

\* line 436: the test of the list comprehension
KeepEmail(email) == email # <<>> /\ Contains(email, "@")

\* line 436: [email.strip() for email in emails if email and "@" in email]
RECURSIVE ValidEmails(_)
ValidEmails(emails) ==
    IF emails = <<>>
    THEN <<>>
    ELSE (IF KeepEmail(Head(emails)) THEN <<Strip(Head(emails))>> ELSE <<>>)
         \o ValidEmails(Tail(emails))

\* lines 433-439: the subscribers read from a worksheet
SheetSubscribers(worksheet) == ValidEmails(DropFirst(ColValues(worksheet, 2)))

\* the default of os.environ.get("RECIPIENT_EMAIL", ...), abbreviated
DefaultRecipient == <<"j", "@", "g">>

\* os.environ.get("RECIPIENT_EMAIL", default); env is <<>> when unset
Fallback(env) == IF env = <<>> THEN DefaultRecipient ELSE env[1]

\* the return value of get_subscribers
SubscribersResult(outcome, worksheet, env) ==
    IF outcome = "ok"
    THEN SheetSubscribers(worksheet)
    ELSE <<Fallback(env)>>

AddrA == <<"a", "@", "x">>
AddrB == <<"b", "@", "x">>
AddrOps == <<"o", "@", "x">>
Header == <<"Timestamp", <<"E", "m", "a", "i", "l">>, "Status">>

\* rows are (timestamp, email, status)
SheetExample ==
    <<Header,
      <<"t1", AddrA, "active">>,
      <<"t2", AddrB, "inactive">>,
      <<"t3", <<"b", "a", "d">>, "">> >>
SheetHeaderOnly == <<Header>>
SheetBlank == <<>>
SheetMessy ==
    <<Header,
      <<"t1", <<" ", "A", "@", "x", " ">>, "active">>,
      <<"t2">>,
      <<"t3", <<"a", "@", "@", "x">>, "active">> >>
SheetDuplicate ==
    <<Header, <<"t1", AddrA, "active">>, <<"t2", AddrA, "active">> >>

Worksheets ==
    {SheetExample, SheetHeaderOnly, SheetBlank, SheetMessy, SheetDuplicate}
RecipientEnvs == {<<>>, <<AddrOps>>}

\* "no_credentials": GOOGLE_SHEETS_CREDENTIALS unset or empty (414-416);
\* "bad_credentials": json.loads or Credentials raises (418-424);
\* "client_error": gspread raises (425-433); "ok": the column was read
DirOutcomes == {"no_credentials", "bad_credentials", "client_error", "ok"}

GetSubscribers ==
    /\ pc = "get_subscribers"
    /\ \E outcome \in DirOutcomes, worksheet \in Worksheets,
          env \in RecipientEnvs :
          /\ outcome # "ok" => worksheet = SheetBlank
          /\ outcome = "ok" => env = <<>>
          /\ dirOutcome' = outcome
          /\ sheet' = worksheet
          /\ recipientEnv' = env
          /\ dirReads' = IF outcome \in {"client_error", "ok"}
                         THEN dirReads + 1
                         ELSE dirReads
          /\ subscribers' = SubscribersResult(outcome, worksheet, env)
    /\ pc' = "send_email"
    /\ UNCHANGED <<utc, cutoff, i, free_articles, paywall_articles, fetchLog,
                   fetchCount, fetches, digestArgs, attempt, apiLog, sleeps, digest, html_email,
                   k, sendLog, delivered, connections, openConns, raisedAt, environment>>

-----------------------------------------------------------------------------
(* send_email, lines 445-471 *)

\* lines 447-451: EMAIL_ADDRESS and EMAIL_PASSWORD are read from os.environ
\* (KeyError when one is not set), then the loop starts
SendEnter ==
    /\ pc = "send_email"
    /\ \E hasEnv \in BOOLEAN :
          IF hasEnv
          THEN /\ pc' = "sending"
               /\ k' = 1
               /\ UNCHANGED raisedAt
          ELSE /\ Raise("send_email")
               /\ UNCHANGED k
    /\ UNCHANGED <<utc, cutoff, i, free_articles, paywall_articles, fetchLog,
                   fetchCount, fetches, digestArgs, attempt, apiLog, sleeps, digest, html_email,
                   dirReads, subscribers, sendLog, delivered, connections, openConns,
                   dirOutcome, sheet, recipientEnv, environment>>

\* what happens before the connection exists: "message_error": building
\* the message raises (455-461); "connect_error": SMTP_SSL raises (463);
\* "connected": the with block is entered
ConnectOutcomes == {"message_error", "connect_error", "connected"}

\* what happens inside the with block: "login_error" (464), "send_error"
\* (465), "ok"
SessionOutcomes == {"login_error", "send_error", "ok"}

\* the record logged for a recipient at line 467 (sent) or 471 (failed)
SendRecord(recipient, succeeded) ==
    [recipient |-> recipient, channel |-> "smtp", succeeded |-> succeeded]

\* SendOne whose except clause logs nothing
SendOneSilent ==
    /\ pc = "sending"
    /\ k <= Len(subscribers)
    /\ \E outcome \in ConnectOutcomes :
          IF outcome = "connected"
          THEN /\ connections' = connections + 1
               /\ openConns' = openConns + 1
               /\ pc' = "session"
               /\ UNCHANGED <<k, sendLog, raisedAt>>
          ELSE /\ k' = k + 1
               /\ UNCHANGED <<pc, sendLog, connections, openConns, raisedAt>>
    /\ UNCHANGED <<utc, delivered>>
    /\ UNCHANGED <<cutoff, i, free_articles, paywall_articles, fetchLog,
                   fetchCount, fetches, digestArgs, attempt, apiLog, sleeps, digest,
                   html_email, dirReads, subscribers, dirOutcome, sheet,
                   recipientEnv, environment>>

\* SendOne without the try/except: a failed send leaves send_email
SendOneAborting ==
    /\ pc = "sending"
    /\ k <= Len(subscribers)
    /\ \E outcome \in ConnectOutcomes :
          IF outcome = "connected"
          THEN /\ connections' = connections + 1
               /\ openConns' = openConns + 1
               /\ pc' = "session"
               /\ UNCHANGED <<k, sendLog, raisedAt>>
          ELSE /\ Raise("send_email")
               /\ UNCHANGED <<k, sendLog, connections, openConns>>
    /\ UNCHANGED <<utc, delivered>>
    /\ UNCHANGED <<cutoff, i, free_articles, paywall_articles, fetchLog,
                   fetchCount, fetches, digestArgs, attempt, apiLog, sleeps, digest,
                   html_email, dirReads, subscribers, dirOutcome, sheet,
                   recipientEnv, environment>>

\* one iteration of the loop over the recipients, up to the connection
\* (lines 453-463): the message is built and a connection of this
\* recipient's own is opened; an exception is logged by the except clause
\* (470-471) and the loop goes on
SendOne ==
    /\ pc = "sending"
    /\ k <= Len(subscribers)
    /\ \E outcome \in ConnectOutcomes :
          IF outcome = "connected"
          THEN /\ connections' = connections + 1
               /\ openConns' = openConns + 1
               /\ pc' = "session"
               /\ UNCHANGED <<k, sendLog, raisedAt>>
          ELSE /\ sendLog' = Append(sendLog, SendRecord(subscribers[k], FALSE))
               /\ k' = k + 1
               /\ UNCHANGED <<pc, connections, openConns, raisedAt>>
    /\ UNCHANGED <<utc, delivered>>
    /\ UNCHANGED <<cutoff, i, free_articles, paywall_articles, fetchLog,
                   fetchCount, fetches, digestArgs, attempt, apiLog, sleeps, digest,
                   html_email, dirReads, subscribers, dirOutcome, sheet,
                   recipientEnv, environment>>

\* SendSession with the connection closed by a call at the end of the block
\* instead of the with statement: an exception skips the call
SendSessionNoWith ==
    /\ pc = "session"
    /\ \E outcome \in SessionOutcomes :
          LET recipient == subscribers[k] IN
          /\ openConns' = IF outcome = "ok" THEN openConns - 1 ELSE openConns
          /\ sendLog' = Append(sendLog, SendRecord(recipient, outcome = "ok"))
          /\ delivered' = IF outcome = "ok"
                          THEN Append(delivered, recipient)
                          ELSE delivered
          /\ utc' = IF outcome = "ok" THEN utc + SleepTicks(1) ELSE utc
    /\ k' = k + 1
    /\ pc' = "sending"
    /\ UNCHANGED <<connections, raisedAt>>
    /\ UNCHANGED <<cutoff, i, free_articles, paywall_articles, fetchLog,
                   fetchCount, fetches, digestArgs, attempt, apiLog, sleeps, digest,
                   html_email, dirReads, subscribers, dirOutcome, sheet,
                   recipientEnv, environment>>

\* the with block, lines 463-468 and 470-471: login and sendmail over the
\* open connection; leaving the block, normally or by an exception, closes
\* the connection; then the outcome is logged (after a success, sleep(1))
SendSession ==
    /\ pc = "session"
    /\ \E outcome \in SessionOutcomes :
          LET recipient == subscribers[k] IN
          /\ openConns' = openConns - 1
          /\ sendLog' = Append(sendLog, SendRecord(recipient, outcome = "ok"))
          /\ delivered' = IF outcome = "ok"
                          THEN Append(delivered, recipient)
                          ELSE delivered
          /\ utc' = IF outcome = "ok" THEN utc + SleepTicks(1) ELSE utc
    /\ k' = k + 1
    /\ pc' = "sending"
    /\ UNCHANGED <<connections, raisedAt>>
    /\ UNCHANGED <<cutoff, i, free_articles, paywall_articles, fetchLog,
                   fetchCount, fetches, digestArgs, attempt, apiLog, sleeps, digest,
                   html_email, dirReads, subscribers, dirOutcome, sheet,
                   recipientEnv, environment>>

\* the loop is over: send_email returns and main logs "Done!" (496)
SendReturn ==
    /\ pc = "sending"
    /\ k > Len(subscribers)
    /\ pc' = "done"
    /\ UNCHANGED <<utc, cutoff, i, free_articles, paywall_articles, fetchLog,
                   fetchCount, fetches, digestArgs, attempt, apiLog, sleeps, digest, html_email,
                   dirReads, subscribers, k, sendLog, delivered, connections, openConns,
                   raisedAt, dirOutcome, sheet, recipientEnv, environment>>

-----------------------------------------------------------------------------

Next ==
    \/ FetchFree
    \/ FetchPaywall
    \/ MainCheck
    \/ DigestEnter
    \/ ApiCall
    \/ BuildEmail
    \/ GetSubscribers
    \/ SendEnter
    \/ SendOne
    \/ SendSession
    \/ SendReturn

Spec == Init /\ [][Next]_vars

-----------------------------------------------------------------------------
(* Properties of fetch_articles, checked under SpecFetch *)

AllArticles == free_articles \o paywall_articles

\* the articles of a list that name a source
ArticlesOf(list, name) == SelectSeq(list, LAMBDA a : a.source = name)

\* the moment a source is fetched: the sources are fetched in the order of
\* their names, each fetch taking FetchTicks, whether it fails or not
FetchTime(name) == StartUtc + name * FetchTicks

\* what fetch_articles returns for a source in the run where no source fails
NoFailArticles(name) ==
    IF name \in FreeNames
    THEN SourceArticles(SOURCES[name], feeds[name], cutoff,
                        LocalNow(FetchTime(name), tzOffset), FALSE)
    ELSE SourceArticles(PAYWALL_SOURCES[name - NumFree], feeds[name], cutoff,
                        LocalNow(FetchTime(name), tzOffset), TRUE)

\* the no-failure articles of the non-failing sources lo..hi, in source order
RECURSIVE Expected(_, _)
Expected(lo, hi) ==
    IF lo > hi
    THEN <<>>
    ELSE (IF lo \in raising THEN <<>> ELSE NoFailArticles(lo))
         \o Expected(lo + 1, hi)

Fetched == {n \in AllNames : fetches[n] > 0}

\* C1: per-source isolation.  Whatever sources fail, fetch_articles does not
\* raise, and once it has returned the free list is exactly the articles the
\* non-failing free sources yield in the run without failures, in the same
\* order, and likewise the paywalled list; while it runs, every source
\* fetched so far that did not fail has contributed exactly its no-failure
\* articles to the list of its tier and nothing to the other list, and a
\* failing source has contributed nothing.
C1_PerSourceIsolation ==
    /\ pc # "raised"
    /\ \A n \in Fetched \ raising :
          /\ ArticlesOf(free_articles, n) =
                IF n \in FreeNames THEN NoFailArticles(n) ELSE <<>>
          /\ ArticlesOf(paywall_articles, n) =
                IF n \in PaywallNames THEN NoFailArticles(n) ELSE <<>>
    /\ \A n \in raising : ArticlesOf(AllArticles, n) = <<>>
    /\ pc = "main_check" =>
          /\ Fetched = AllNames
          /\ free_articles = Expected(1, NumFree)
          /\ paywall_articles = Expected(NumFree + 1, NumFree + NumPaywall)

\* a free source fails, a later free source and a paywalled source deliver
C1_Witness ==
    /\ pc = "main_check"
    /\ \E n \in raising \cap FreeNames, m \in FreeNames \ raising :
          n < m /\ ArticlesOf(free_articles, m) # <<>>
    /\ paywall_articles # <<>>

\* C2: every returned article is dated within [now - TIME_WINDOW_HOURS, now]
\* (dates to the minute, UTC; the window opens TIME_WINDOW_HOURS before the
\* start of the run and closes at the present moment).
C2_WithinWindow ==
    \A n \in 1..Len(AllArticles) :
       /\ AllArticles[n].date >= Strftime(StartUtc - WindowTicks)
       /\ AllArticles[n].date <= Strftime(utc)

IsSortedNewestFirst(list) ==
    \A n \in 1..Len(list) - 1 : list[n].date >= list[n + 1].date

\* C3: the returned lists are ordered newest first and hold at most 40
\* (free) and 20 (paywalled) articles.
C3_SortedAndCapped ==
    pc = "main_check" =>
       /\ IsSortedNewestFirst(free_articles)
       /\ IsSortedNewestFirst(paywall_articles)
       /\ Len(free_articles) <= 40
       /\ Len(paywall_articles) <= 20

\* the sources reported as failed: the error lines of the log (190, 221)
failedSources == {n \in DOMAIN fetchLog : fetchLog[n] = "error"}

\* C4: after the collection every source that returned no entries or whose
\* fetch raised is in the set of failed sources, the set holds only
\* configured names, and no article names a source of the set.
C4_FailedSourcesRecorded ==
    pc = "main_check" =>
       /\ \A n \in AllNames :
             (n \in raising \/ feeds[n] = <<>>) => n \in failedSources
       /\ failedSources \subseteq AllNames
       /\ \A n \in failedSources : ArticlesOf(AllArticles, n) = <<>>

-----------------------------------------------------------------------------
(* Properties of get_subscribers, checked under Spec *)

LowerChar(c) == CASE c = "A" -> "a" [] c = "B" -> "b" [] OTHER -> c

\* the address trimmed and lower-cased
Normalize(email) ==
    [n \in 1..Len(Strip(email)) |-> LowerChar(Strip(email)[n])]

CountAt(str) == Cardinality({n \in 1..Len(str) : str[n] = "@"})

RowEmail(row) == IF Len(row) >= 2 THEN row[2] ELSE <<>>
RowStatus(row) == IF Len(row) >= 3 THEN row[3] ELSE ""

\* a row is eligible: active or no status, one "@" in a non-empty address
Eligible(row) ==
    /\ RowStatus(row) \in {"active", ""}
    /\ Normalize(RowEmail(row)) # <<>>
    /\ CountAt(Normalize(RowEmail(row))) = 1

RECURSIVE EligibleEmails(_)
EligibleEmails(rows) ==
    IF rows = <<>>
    THEN <<>>
    ELSE (IF Eligible(Head(rows))
          THEN <<Normalize(RowEmail(Head(rows)))>>
          ELSE <<>>)
         \o EligibleEmails(Tail(rows))

\* C5: when the directory read succeeds, get_subscribers returns exactly the
\* eligible rows, in directory order: status active or absent, and an address
\* that trimmed and lower-cased is non-empty and holds exactly one "@".
C5_ExactlyEligibleRows ==
    dirOutcome = "ok" => subscribers = EligibleEmails(DropFirst(sheet))

\* C6: get_subscribers never raises and never returns an empty list: when the
\* credentials are missing or malformed, the directory client raises or the
\* directory yields no valid row, it returns exactly the fallback address.
C6_FallbackNeverEmpty ==
    /\ raisedAt # "get_subscribers"
    /\ dirOutcome # "none" =>
          /\ subscribers # <<>>
          /\ (dirOutcome # "ok" \/ EligibleEmails(DropFirst(sheet)) = <<>>)
                => subscribers = <<Fallback(recipientEnv)>>

-----------------------------------------------------------------------------
(* Properties of send_email and main, checked under Spec *)

OnChannel(channel) == {n \in DOMAIN sendLog : sendLog[n].channel = channel}

Recipients(log) == [n \in 1..Len(log) |-> log[n].recipient]

\* C8: a failed send does not abort the batch.  The loop of send_email never
\* raises (send_email raises only before its first attempt), it ends having
\* attempted every recipient, and the server has accepted, in list order, a
\* message for every recipient whose own send did not fail.
C8_FailureDoesNotAbortBatch ==
    /\ (pc = "raised" /\ raisedAt = "send_email") => sendLog = <<>>
    /\ pc = "done" => Recipients(sendLog) = subscribers
    /\ delivered = Recipients(SelectSeq(sendLog, LAMBDA o : o.succeeded))

\* a recipient is delivered to after the send to an earlier one failed
C8_Witness ==
    /\ pc = "done"
    /\ \E n, m \in DOMAIN sendLog :
          /\ n < m
          /\ ~sendLog[n].succeeded
          /\ sendLog[m].succeeded
          /\ sendLog[m].recipient \in {delivered[j] : j \in DOMAIN delivered}

\* C9: with fewer than 3 articles collected the run makes no summarizer
\* call, no directory read and no send.
C9_BelowFloorAborts ==
    (pc \notin {"fetch_free", "fetch_paywall"}
        /\ Len(free_articles) + Len(paywall_articles) < 3)
    => /\ apiLog = <<>>
       /\ dirOutcome = "none"
       /\ sendLog = <<>>

ApiSucceeded == \E n \in DOMAIN apiLog : apiLog[n] = "ok"

\* C10: nothing is sent, and the directory is not read, unless a summarizer
\* call of the run has returned successfully; when max_retries attempts have
\* all failed the run has ended with the exception of generate_digest, the
\* directory unread and nothing sent.
C10_NoSendWithoutDigest ==
    /\ (dirOutcome # "none" \/ dirReads > 0 \/ sendLog # <<>>
           \/ delivered # <<>> \/ connections > 0)
          => ApiSucceeded
    /\ (Len(apiLog) = max_retries /\ ~ApiSucceeded)
          => /\ pc = "raised"
             /\ raisedAt = "generate_digest"
    /\ (pc = "raised" /\ raisedAt = "generate_digest")
          => /\ dirOutcome = "none"
             /\ dirReads = 0
             /\ sendLog = <<>>
             /\ delivered = <<>>

\* all three attempts failed with an API error
C10_Witness ==
    /\ pc = "raised"
    /\ Len(apiLog) = max_retries
    /\ \A n \in DOMAIN apiLog : apiLog[n] = "api_error"

-----------------------------------------------------------------------------
(* Properties of the entry filter of fetch_articles, checked under         *)
(* SpecFetch                                                               *)

Capitals ==
    <<"A", "B", "C", "D", "E", "F", "G", "H", "I", "J", "K", "L", "M", "N",
      "O", "P", "Q", "R", "S", "T", "U", "V", "W", "X", "Y", "Z">>

ToLowerChar(c) ==
    IF \E n \in DOMAIN Capitals : Capitals[n] = c
    THEN Letters[CHOOSE n \in DOMAIN Capitals : Capitals[n] = c]
    ELSE c

ToLower(text) == [n \in 1..Len(text) |-> ToLowerChar(text[n])]

\* word occurs in text
Occurs(word, text) ==
    \E at \in 0..Len(text) - Len(word) :
       SubSeq(text, at + 1, at + Len(word)) = word

ExclusionKeywords == {<<"s", "p", "o", "r", "t", "s">>}

\* text holds an exclusion keyword, whatever the case
Excluded(text) == \E word \in ExclusionKeywords : Occurs(word, ToLower(text))

\* the entries of the article's source that carry the article's link
EntriesOf(article) ==
    {n \in DOMAIN feeds[article.source] :
        Get(feeds[article.source][n], "link", <<>>) = article.link}

\* C12: no returned article, free or paywalled, has an exclusion keyword
\* ("sports") in its title or its summary, in any letter case.
C12_ExcludedKeywordDropped ==
    \A n \in DOMAIN AllArticles :
       /\ ~Excluded(AllArticles[n].title)
       /\ ~Excluded(AllArticles[n].summary)

\* C13: every returned article comes from an entry that carries a date, and
\* is dated with the entry's published date if there is one and with its
\* updated date otherwise; an entry without a date yields no article.
C13_UndatedEntryDropped ==
    \A n \in DOMAIN AllArticles :
       \E e \in EntriesOf(AllArticles[n]) :
          LET entry == feeds[AllArticles[n].source][e] IN
          /\ HasDate(entry, "published_parsed") \/ HasDate(entry, "updated_parsed")
          /\ AllArticles[n].date =
                Strftime(IF HasDate(entry, "published_parsed")
                         THEN Datetime(entry.published_parsed)
                         ELSE Datetime(entry.updated_parsed))

\* html.escape, character by character
EscapeChar(c) ==
    CASE c = "&" -> <<"&", "a", "m", "p", ";">>
      [] c = "<" -> <<"&", "l", "t", ";">>
      [] c = ">" -> <<"&", "g", "t", ";">>
      [] OTHER -> <<c>>

RECURSIVE Escape(_)
Escape(text) ==
    IF text = <<>> THEN <<>> ELSE EscapeChar(Head(text)) \o Escape(Tail(text))

HasMarkup(text) == \E n \in DOMAIN text : text[n] \in {"<", ">"}

\* C14: the title and the summary of every returned article are the escaped
\* text of its entry, escaped once, and hold no raw markup character.
C14_TitleAndSummaryEscaped ==
    \A n \in DOMAIN AllArticles :
       /\ ~HasMarkup(AllArticles[n].title)
       /\ ~HasMarkup(AllArticles[n].summary)
       /\ \E e \in EntriesOf(AllArticles[n]) :
             LET entry == feeds[AllArticles[n].source][e] IN
             /\ AllArticles[n].title = Escape(Get(entry, "title", Untitled))
             /\ AllArticles[n].summary =
                   Escape(Slice(Get(entry, "summary",
                                    Get(entry, "description", <<>>)),
                                SUMMARY_MAX))

\* C16: only the first MAX_ARTICLES_PER_SOURCE entries of a feed are looked
\* at, and the cut comes before the date test: no returned article comes
\* from an entry at a later position, even when fewer than
\* MAX_ARTICLES_PER_SOURCE of the first entries qualify, and no source has
\* more than MAX_ARTICLES_PER_SOURCE articles in the lists.
C16_CutBeforeFilter ==
    \A s \in AllNames :
       /\ Len(ArticlesOf(AllArticles, s)) <= MAX_ARTICLES_PER_SOURCE
       /\ \A n \in DOMAIN AllArticles :
             AllArticles[n].source = s =>
                \E e \in EntriesOf(AllArticles[n]) :
                   e <= MAX_ARTICLES_PER_SOURCE

\* a fetched feed is longer than the cut, its entry after the cut is within
\* the window, and fewer articles than the cut came out of it
C16_Witness ==
    \E s \in Fetched \ raising :
       /\ Len(feeds[s]) > MAX_ARTICLES_PER_SOURCE
       /\ ~EntryRaises(feeds[s][MAX_ARTICLES_PER_SOURCE + 1])
       /\ PubDate(feeds[s][MAX_ARTICLES_PER_SOURCE + 1], cutoff) >= cutoff
       /\ ArticlesOf(AllArticles, s) # <<>>
       /\ Len(ArticlesOf(AllArticles, s)) < MAX_ARTICLES_PER_SOURCE

-----------------------------------------------------------------------------
(* Properties of the run after collection, checked under Spec *)

Ended == pc \in {"done", "no_articles", "raised"}

\* every send of the run failed, and there was one at least
TotalDeliveryFailure ==
    /\ sendLog # <<>>
    /\ \A n \in DOMAIN sendLog : ~sendLog[n].succeeded

\* C11: a run whose every send failed does not complete normally: it ends
\* with an exception out of main; a run that delivered to one recipient at
\* least completes normally.
C11_TotalFailureFailsRun ==
    /\ (Ended /\ TotalDeliveryFailure) => pc = "raised"
    /\ (Ended /\ delivered # <<>>) => pc = "done"

\* the digest has a story section
HasStory(text) == \E n \in DOMAIN text : text[n] = "story"

\* C15: when the summarizer call succeeded with an output that is empty or
\* has no story section, the run fails: no send is attempted, nothing is
\* delivered, and the run does not complete normally.
C15_EmptyDigestRejected ==
    (ApiSucceeded /\ ~HasStory(digest))
    => /\ sendLog = <<>>
       /\ delivered = <<>>
       /\ connections = 0
       /\ pc # "done"

C19_NoDuplicateRecipients ==
    /\ \A n, m \in DOMAIN subscribers :
          n # m => Normalize(subscribers[n]) # Normalize(subscribers[m])
    /\ \A n, m \in DOMAIN sendLog :
          n # m => Normalize(sendLog[n].recipient)
                      # Normalize(sendLog[m].recipient)

\* the last outcome of the summarizer so far
LastApi == apiLog[Len(apiLog)]

\* the API errors that were followed by a wait
Waited == {n \in DOMAIN apiLog : apiLog[n] = "api_error" /\ n < max_retries}

\* C20: generate_digest makes at most max_retries attempts.  An attempt is
\* made only after API errors, so none follows a success or another
\* exception; each API error before the last attempt was followed by a wait
\* of 5 seconds times the number of the attempt; while the loop runs, the
\* attempts made are those counted by the loop; once it has ended, it has
\* either returned the response of its last attempt, which succeeded, or
\* raised: at once after another exception, after the last attempt after an
\* API error.
C20_BoundedRetry ==
    /\ Len(apiLog) <= max_retries
    /\ \A n \in 1..Len(apiLog) - 1 : apiLog[n] = "api_error"
    /\ sleeps = [n \in 1..Cardinality(Waited) |-> 5 * n]
    /\ pc = "api_call" => (Len(apiLog) = attempt /\ attempt < max_retries)
    /\ (apiLog # <<>> /\ pc # "api_call") =>
          CASE LastApi = "ok" ->
                  /\ raisedAt # "generate_digest"
                  /\ digest \in Responses
            [] LastApi = "api_error" ->
                  /\ Len(apiLog) = max_retries
                  /\ pc = "raised"
                  /\ raisedAt = "generate_digest"
            [] LastApi = "other_error" ->
                  /\ pc = "raised"
                  /\ raisedAt = "generate_digest"

\* the third attempt succeeded after two API errors and two waits
C20_Witness ==
    /\ pc = "build_email"
    /\ apiLog = <<"api_error", "api_error", "ok">>
    /\ sleeps = <<5, 10>>

-----------------------------------------------------------------------------
(* The order of the stages of main, checked under Spec *)

Collecting == pc \in {"fetch_free", "fetch_paywall", "main_check"}

\* fetch_articles has returned: every source was tried
CollectReturned ==
    /\ pc \notin {"fetch_free", "fetch_paywall"}
    /\ \A s \in AllNames : fetchLog[s] # "none"

SummarizeStarted == digestArgs # <<>>
BuildReturned == html_email # <<>>
ResolveReturned == dirOutcome # "none"
SendStarted ==
    \/ pc \in {"sending", "session", "done"}
    \/ raisedAt = "send_email"
    \/ sendLog # <<>>

NoArticles == free_articles = <<>> /\ paywall_articles = <<>>

\* C21: the stages of main run in the order collect, summarize, build,
\* resolve subscribers, send, and a stage starts only when the one before
\* it has returned without raising.  With both lists empty main returns
\* after the collection: no summarizer call, no read of the directory, no
\* send, no exception.  With an article in either list generate_digest is
\* called, with both lists as they were collected.
C21_StagesInOrder ==
    /\ SummarizeStarted => CollectReturned
    /\ apiLog # <<>> => SummarizeStarted
    /\ BuildReturned =>
          /\ ApiSucceeded
          /\ raisedAt # "generate_digest"
          /\ html_email = <<"header">> \o digest \o <<"footer">>
    /\ (ResolveReturned \/ dirReads > 0 \/ pc = "send_email") => BuildReturned
    /\ SendStarted => ResolveReturned
    /\ (~Collecting /\ NoArticles) =>
          /\ pc = "no_articles"
          /\ ~SummarizeStarted
          /\ apiLog = <<>>
          /\ ~BuildReturned
          /\ ~ResolveReturned
          /\ dirReads = 0
          /\ ~SendStarted
          /\ delivered = <<>>
          /\ raisedAt = "nowhere"
    /\ (~Collecting /\ ~NoArticles) =>
          /\ pc # "no_articles"
          /\ digestArgs = <<free_articles, paywall_articles>>

\* a run whose only articles are paywalled went through every stage and
\* delivered
C21_Witness ==
    /\ pc = "done"
    /\ free_articles = <<>>
    /\ paywall_articles # <<>>
    /\ delivered # <<>>

====
